---------------------------- MODULE Spec2Model ----------------------------
(***************************************************************************)
(* Model of deepfabric::allocator_pool (allocator_pool.hpp/.cpp) and       *)
(* deepfabric::dynamic_array (dynamic_array.hpp).                           *)
(*                                                                         *)
(* Every atomic access of the C++ code (a load, a store, a read-modify-    *)
(* write or a compare_exchange on a std::atomic) is one step of the        *)
(* calling thread; the thread-local computation that follows it belongs to *)
(* the same step.  Program counters are named after the source line of     *)
(* the atomic access they are about to execute.                            *)
(***************************************************************************)
EXTENDS Integers, Sequences, FiniteSets, TLC

(***************************************************************************)
(* Bounds of the model.                                                    *)
(***************************************************************************)
MaxCalls == 2            \* malloc calls issued in all
MemSlots == 9            \* host memory, in units of HostAlign bytes
HostChoices == 2         \* free blocks the host chooses among, lowest first
SpillCalls == 4          \* malloc(20) calls of the chunk-spill scenario
SpillSlots == 16         \* host memory of the chunk-spill scenario
MaxFairCalls == 2        \* malloc calls issued in all under fair scheduling
FairSlots == 21          \* host memory of the runs under fair scheduling
MaxPush == 4             \* push_back calls made in all by concurrent threads
MaxSeqPush == 4          \* push_back calls made by a single thread
MaxFairPush == 3         \* push_back calls made in all under fair scheduling
MaxInitialSize == 2      \* initial_size of a dynamic_array
MaxCSeqPush == 4         \* compressed push_back calls made by a single thread
RangeLen == 2            \* values each thread appends to a compressed array
MaxSmallWord == 300      \* small values handed to the variable-byte code
MaxCNodes == 6           \* nodes a compressed_dynamic_array is let grow to

(***************************************************************************)
(* Program constants (LP64 build).  Addresses and sizes stay far below     *)
(* 2^64 here, so pointer and size_t arithmetic does not wrap.              *)
(***************************************************************************)
NULL == 0                \* nullptr
ChunkHeader == 32        \* sizeof(allocator_pool::chunk) == offsetof(chunk, data)
HostAlign == 16          \* alignment of the pointers ::malloc returns

Threads == {1, 2}       \* the threads that call into one pool / one array

Max(a, b) == IF a >= b THEN a ELSE b

\* size_t and pointers are words of WordBits bits, and their sums wrap round.
\* The width is scaled down from 64 so that the sums near the largest word
\* stay within the integers of the model checker.
WordBits == 16
SizeMax == 2^WordBits - 1
Wrap(x) == x % 2^WordBits

(***************************************************************************)
(* allocator_pool state.                                                   *)
(*   chunks    the host blocks that are live, keyed by address; a block is *)
(*             the chunk header written by add_chunk                       *)
(*   pc ... installs  the position and the locals of each thread's malloc  *)
(*   allocs    history: the calls that returned since the last rewind      *)
(*   requested history: the sum of their bytes arguments                   *)
(*   ncalls    history: the number of malloc calls made so far             *)
(*   rewoundAt history: the value of ncalls at the last rewind             *)
(***************************************************************************)
VARIABLES block_size, used, allocated, current_chunk, chunks, memSlots,
          pc, bytes, alignment, chunk, top_of_stack, padding, chain,
          call, ncalls, installs, exited, allocs, requested, rewoundAt

poolVars == <<block_size, used, allocated, current_chunk, chunks, memSlots,
              pc, bytes, alignment, chunk, top_of_stack, padding, chain,
              call, ncalls, installs, exited, allocs, requested, rewoundAt>>

(***************************************************************************)
(* dynamic_array state.  A node is a record of the sequence nodes, its     *)
(* address being its index: the pool hands out fresh memory for every node *)
(* and never takes any back, so the nodes a push_back has abandoned stay.  *)
(*   head, tail, growth_factor, nodes   the array and its nodes            *)
(*   apc ... element   the position and the locals of each push_back       *)
(*   pushed    history: <<thread, value>> of every push_back call, in the  *)
(*             order of the calls                                          *)
(*   reserved  history: the values of the calls that have taken a slot of  *)
(*             a node, in the order in which the slots were taken          *)
(***************************************************************************)
VARIABLES head, tail, growth_factor, nodes,
          apc, last, slot, another, element, pushed, reserved

arrayVars == <<head, tail, growth_factor, nodes,
               apc, last, slot, another, element, pushed, reserved>>

(***************************************************************************)
(* compressed_dynamic_array (compressed_dynamic_array.hpp).  A uint32_t is  *)
(* the pair <<high 16 bits, low 16 bits>>, a byte is a number in 0..255.    *)
(*   chead, ctail, cgrowth_factor, cnodes   the array and its nodes; a node *)
(*             is [data, next, allocated, used], data the bytes of the node *)
(*   cpc       position of each thread in push_back                         *)
(*   clast, cval, canother, celement   the locals of each push_back         *)
(*   cpushed   history: <<thread, value>> of every push_back call, in the   *)
(*             order of the calls                                           *)
(* The variable-byte code on its own:                                       *)
(*   velement  the value handed to push_back                                *)
(*   vbytes    the bytes push_back has written for it                       *)
(*   vword     what read_word has returned, [i, data]                       *)
(*   vpc       "encode", "decode" or "done"                                 *)
(***************************************************************************)
VARIABLES chead, ctail, cgrowth_factor, cnodes,
          cpc, clast, cval, canother, celement, cpushed,
          velement, vbytes, vword, vpc

compVars == <<chead, ctail, cgrowth_factor, cnodes,
              cpc, clast, cval, canother, celement, cpushed,
              velement, vbytes, vword, vpc>>

(***************************************************************************)
(* GrpcServer (grpc_server.hpp, grpc_server.cpp).                          *)
(*   running_    the atomic flag Start sets                                *)
(*   registered  the services handed to builder_.RegisterService, in order *)
(*   services_   the services the object owns                              *)
(*   server_     NotBuilt, or the server BuildAndStart has returned: the   *)
(*               services the builder held when it was built               *)
(*   aborted     abort() has been called: the process is gone              *)
(*   gpc, gservice   position and argument of each thread's call           *)
(*   startLog    history: <<thread, value read>> of every exchange of      *)
(*               line 26, in order                                         *)
(*   builds      history: the number of BuildAndStart calls made           *)
(*   gcalls      the number of calls made                                  *)
(***************************************************************************)
VARIABLES running_, registered, services_, server_, aborted,
          gpc, gservice, startLog, builds, gcalls

serverVars == <<running_, registered, services_, server_, aborted,
                gpc, gservice, startLog, builds, gcalls>>

vars == <<poolVars, arrayVars, compVars, serverVars>>

\* server_ before BuildAndStart: no server, built by no thread
NotBuilt == [services |-> <<>>, by |-> NULL]

\* no GrpcServer has been constructed
NoServer ==
    /\ running_ = FALSE
    /\ registered = <<>>
    /\ services_ = <<>>
    /\ server_ = NotBuilt
    /\ aborted = FALSE
    /\ gpc = [t \in Threads |-> "idle"]
    /\ gservice = [t \in Threads |-> NULL]
    /\ startLog = <<>>
    /\ builds = 0
    /\ gcalls = 0

\* no dynamic_array has been constructed
NoArray ==
    /\ head = NULL /\ tail = NULL
    /\ growth_factor = <<1, 1>>
    /\ nodes = <<>>
    /\ apc = [t \in Threads |-> "idle"]
    /\ last = [t \in Threads |-> NULL]
    /\ slot = [t \in Threads |-> 0]
    /\ another = [t \in Threads |-> NULL]
    /\ element = [t \in Threads |-> 0]
    /\ pushed = <<>>
    /\ reserved = <<>>

\* no compressed_dynamic_array has been constructed
NoCompressedArray ==
    /\ chead = NULL /\ ctail = NULL
    /\ cgrowth_factor = <<1, 1>>
    /\ cnodes = <<>>
    /\ cpc = [t \in Threads |-> "idle"]
    /\ clast = [t \in Threads |-> NULL]
    /\ cval = [t \in Threads |-> <<0, 0>>]
    /\ canother = [t \in Threads |-> NULL]
    /\ celement = [t \in Threads |-> <<0, 0>>]
    /\ cpushed = <<>>

\* the variable-byte code is not exercised on its own
NoVarint ==
    /\ velement = <<0, 0>>
    /\ vbytes = <<>>
    /\ vword = [i |-> <<0, 0>>, data |-> 0]
    /\ vpc = "done"

NoCompressed == NoCompressedArray /\ NoVarint

(***************************************************************************)
(* Inputs of malloc: sizes and power-of-two alignments.                    *)
(***************************************************************************)
BlockSizes == {8}
Requests == {<<0, 4>>, <<3, 1>>, <<4, 4>>, <<9, 32>>}   \* <<bytes, alignment>>

data(c) == c + ChunkHeader          \* chunk::data follows the header

\* faulty variant of realign: the remainder itself is taken for the padding
realign_remainder(address, boundary) == address % boundary

\* allocator_pool::realign
realign(address, boundary) ==
    IF address % boundary = 0 THEN 0 ELSE boundary - (address % boundary)

\* the block [base, base + size) lies in host memory and meets no live block
HostFree(base, size) ==
    /\ base + size <= (memSlots + 1) * HostAlign
    /\ \A c \in DOMAIN chunks :
          base + size <= c \/ chunks[c].chunk_end <= base

\* the addresses ::malloc(size) may return
HostBases(size) ==
    LET free == {b * HostAlign :
                    b \in {s \in 1..memSlots : HostFree(s * HostAlign, size)}}
    IN {b \in free : Cardinality({x \in free : x < b}) < HostChoices}

Quiescent == \A t \in Threads : pc[t] = "idle"

InitLocals ==
    /\ pc = [t \in Threads |-> "idle"]
    /\ bytes = [t \in Threads |-> 0]
    /\ alignment = [t \in Threads |-> 1]
    /\ chunk = [t \in Threads |-> NULL]
    /\ top_of_stack = [t \in Threads |-> NULL]
    /\ padding = [t \in Threads |-> 0]
    /\ chain = [t \in Threads |-> NULL]
    /\ call = [t \in Threads |-> 0]
    /\ installs = [t \in Threads |-> 0]

\* allocator_pool::allocator_pool, which ends with rewind() on the empty pool
PoolInit(bs, slots) ==
    /\ block_size = bs
    /\ memSlots = slots
    /\ used = 0
    /\ allocated = 0
    /\ current_chunk = NULL
    /\ chunks = <<>>
    /\ exited = FALSE
    /\ allocs = {}
    /\ requested = 0
    /\ rewoundAt = 0
    /\ ncalls = 0
    /\ InitLocals

Init == NoArray /\ NoCompressed /\ NoServer /\ \E bs \in BlockSizes : PoolInit(bs, MemSlots)

\* a thread enters malloc(b, a)
Call(t, b, a) ==
    /\ ~exited
    /\ pc[t] = "idle"
    /\ ncalls' = ncalls + 1
    /\ call' = [call EXCEPT ![t] = ncalls + 1]
    /\ bytes' = [bytes EXCEPT ![t] = b]
    /\ alignment' = [alignment EXCEPT ![t] = a]
    /\ padding' = [padding EXCEPT ![t] = 0]
    /\ installs' = [installs EXCEPT ![t] = 0]
    /\ pc' = [pc EXCEPT ![t] = "L114"]
    /\ UNCHANGED <<serverVars, arrayVars, compVars, block_size, used, allocated, current_chunk, chunks, memSlots,
                   chunk, top_of_stack, chain, exited, allocs, requested, rewoundAt>>

\* the threads are alike, so the first call is taken to be thread 1's
Malloc(t) ==
    /\ ncalls < MaxCalls
    /\ ncalls = 0 => t = 1
    /\ \E r \in Requests : Call(t, r[1], r[2])

\* line 114: chunk = current_chunk
LoadTop(t) ==
    /\ ~exited
    /\ pc[t] = "L114"
    /\ chunk' = [chunk EXCEPT ![t] = current_chunk]
    /\ pc' = [pc EXCEPT ![t] = "L122"]
    /\ UNCHANGED <<serverVars, arrayVars, compVars, block_size, used, allocated, current_chunk, chunks, memSlots,
                   bytes, alignment, top_of_stack, padding, chain,
                   call, ncalls, installs, exited, allocs, requested, rewoundAt>>

\* faulty variant of NoRoom: only the missing chunk is tested for
NoRoom_unchecked(c, top, n, pad) == c = NULL

\* the test of line 133 on the values the thread holds
NoRoom(c, top, n, pad) ==
    c = NULL \/ Wrap(top + n + pad) > chunks[c].chunk_end

\* lines 119-133: read the cursor, compute the padding, test for room
LoadCursor(t) ==
    /\ ~exited
    /\ pc[t] = "L122"
    /\ LET top == IF chunk[t] = NULL THEN NULL ELSE chunks[chunk[t]].chunk_at
           pad == IF alignment[t] # 1 THEN realign(top, alignment[t])
                                      ELSE padding[t]
       IN /\ top_of_stack' = [top_of_stack EXCEPT ![t] = top]
          /\ padding' = [padding EXCEPT ![t] = pad]
          /\ pc' = [pc EXCEPT ![t] =
                      IF NoRoom(chunk[t], top, bytes[t], pad) THEN "L63"
                                                              ELSE "L150"]
    /\ UNCHANGED <<serverVars, arrayVars, compVars, block_size, used, allocated, current_chunk, chunks, memSlots,
                   bytes, alignment, chunk, chain,
                   call, ncalls, installs, exited, allocs, requested, rewoundAt>>

\* faulty variant of Request: the header is not added to the request
Request_no_header(n) == Max(block_size, n)

\* line 57: the size add_chunk(n) asks the host for
Request(n) == Wrap(Max(block_size, n) + ChunkHeader)

\* lines 66-72: the header add_chunk writes into the block at base
NewChunk(base, request) ==
    [next_chunk |-> current_chunk,
     chunk_size |-> request,
     chunk_at   |-> data(base),
     chunk_end  |-> Wrap(base + request)]

\* faulty variant of OutOfMemory: exit() is compiled out and malloc returns nullptr
OutOfMemory_returns(t) ==
    /\ allocs' = allocs \cup {[p |-> NULL, n |-> bytes[t], a |-> alignment[t],
                               pad |-> padding[t], t |-> t, k |-> call[t],
                               c |-> chunk[t], ins |-> installs[t]]}
    /\ pc' = [pc EXCEPT ![t] = "idle"]
    /\ UNCHANGED <<serverVars, arrayVars, compVars, block_size, used, allocated, current_chunk, chunks, memSlots,
                   bytes, alignment, chunk, top_of_stack, padding, chain,
                   call, ncalls, installs, exited, requested, rewoundAt>>

\* lines 63-64 and 135-142: the host refuses, add_chunk returns nullptr and
\* malloc prints the diagnostic and calls exit()
OutOfMemory(t) ==
    /\ exited' = TRUE
    /\ pc' = [pc EXCEPT ![t] = "exit"]
    /\ UNCHANGED <<serverVars, arrayVars, compVars, block_size, used, allocated, current_chunk, chunks, memSlots,
                   bytes, alignment, chunk, top_of_stack, padding, chain,
                   call, ncalls, installs, allocs, requested, rewoundAt>>

\* lines 63-72: the host returns the block at base and add_chunk writes the
\* header into it
Granted(t, base) ==
    /\ chunks' = (base :> NewChunk(base, Request(bytes[t]))) @@ chunks
    /\ chain' = [chain EXCEPT ![t] = base]
    /\ pc' = [pc EXCEPT ![t] = "L77"]
    /\ UNCHANGED <<serverVars, arrayVars, compVars, block_size, used, allocated, current_chunk, memSlots,
                   bytes, alignment, chunk, top_of_stack, padding,
                   call, ncalls, installs, exited, allocs, requested, rewoundAt>>

\* lines 57-72: add_chunk gets a block from the host and initialises it.  The
\* host call touches nothing of the pool, so it is one step with the load of
\* current_chunk at line 69.
AddChunk(t) ==
    /\ ~exited
    /\ pc[t] = "L63"
    /\ \/ OutOfMemory(t)
       \/ \E base \in HostBases(Request(bytes[t])) : Granted(t, base)

\* line 77: current_chunk.compare_exchange_strong(chain->next_chunk, chain)
Install(t) ==
    /\ ~exited
    /\ pc[t] = "L77"
    /\ IF current_chunk = chunks[chain[t]].next_chunk
         THEN /\ current_chunk' = chain[t]
              /\ installs' = [installs EXCEPT ![t] = @ + 1]
              /\ pc' = [pc EXCEPT ![t] = "L79"]
              /\ UNCHANGED chunks
         ELSE /\ chunks' = [chunks EXCEPT ![chain[t]].next_chunk = current_chunk]
              /\ pc' = [pc EXCEPT ![t] = "L81"]
              /\ UNCHANGED <<current_chunk, installs>>
    /\ UNCHANGED <<serverVars, arrayVars, compVars, block_size, used, allocated, memSlots,
                   bytes, alignment, chunk, top_of_stack, padding, chain,
                   call, ncalls, exited, allocs, requested, rewoundAt>>

\* faulty variant of Accounted: the header of the chunk is left out
Accounted_payload(t) == chunks[chain[t]].chunk_size - ChunkHeader

\* faulty variant of Accounted: the caller's bytes are added instead of the request
Accounted_bytes(t) == bytes[t]

\* line 79: what allocated += request adds
Accounted(t) == chunks[chain[t]].chunk_size

\* line 79: allocated += request
Account(t) ==
    /\ ~exited
    /\ pc[t] = "L79"
    /\ allocated' = allocated + Accounted(t)
    /\ chain' = [chain EXCEPT ![t] = NULL]
    /\ pc' = [pc EXCEPT ![t] = "L83"]
    /\ UNCHANGED <<serverVars, arrayVars, compVars, block_size, used, current_chunk, chunks, memSlots,
                   bytes, alignment, chunk, top_of_stack, padding,
                   call, ncalls, installs, exited, allocs, requested, rewoundAt>>

\* line 81: dealloc(chain)
Discard(t) ==
    /\ ~exited
    /\ pc[t] = "L81"
    /\ chunks' = [c \in DOMAIN chunks \ {chain[t]} |-> chunks[c]]
    /\ chain' = [chain EXCEPT ![t] = NULL]
    /\ pc' = [pc EXCEPT ![t] = "L83"]
    /\ UNCHANGED <<serverVars, arrayVars, compVars, block_size, used, allocated, current_chunk, memSlots,
                   bytes, alignment, chunk, top_of_stack, padding,
                   call, ncalls, installs, exited, allocs, requested, rewoundAt>>

\* lines 83 and 135-136: add_chunk returns current_chunk; malloc continues
\* its loop when that is not nullptr and exits the process otherwise
Continue(t) ==
    /\ ~exited
    /\ pc[t] = "L83"
    /\ IF current_chunk # NULL
         THEN /\ pc' = [pc EXCEPT ![t] = "L114"]
              /\ UNCHANGED exited
         ELSE /\ pc' = [pc EXCEPT ![t] = "exit"]
              /\ exited' = TRUE
    /\ UNCHANGED <<serverVars, arrayVars, compVars, block_size, used, allocated, current_chunk, chunks, memSlots,
                   bytes, alignment, chunk, top_of_stack, padding, chain,
                   call, ncalls, installs, allocs, requested, rewoundAt>>

\* faulty variant of CursorSwap: the compare-and-swap fails whatever it finds
CursorSwap_fails(c, expected, desired) == [ok |-> FALSE, at |-> chunks[c].chunk_at]

\* faulty variant of CursorSwap: a plain store in place of the compare-and-swap
CursorSwap_store(c, expected, desired) == [ok |-> TRUE, at |-> desired]

\* line 150: chunk->chunk_at.compare_exchange_strong(top_of_stack, new_top_of_stack)
CursorSwap(c, expected, desired) ==
    IF chunks[c].chunk_at = expected
      THEN [ok |-> TRUE, at |-> desired]
      ELSE [ok |-> FALSE, at |-> chunks[c].chunk_at]

\* lines 149-152: advance the cursor, or go round the loop again
Bump(t) ==
    /\ ~exited
    /\ pc[t] = "L150"
    /\ LET r == CursorSwap(chunk[t], top_of_stack[t],
                           Wrap(top_of_stack[t] + bytes[t] + padding[t]))
       IN /\ chunks' = [chunks EXCEPT ![chunk[t]].chunk_at = r.at]
          /\ pc' = [pc EXCEPT ![t] = IF r.ok THEN "L154" ELSE "L114"]
    /\ UNCHANGED <<serverVars, arrayVars, compVars, block_size, used, allocated, current_chunk, memSlots,
                   bytes, alignment, chunk, top_of_stack, padding, chain,
                   call, ncalls, installs, exited, allocs, requested, rewoundAt>>

\* faulty variant of Charged: the padding is charged too
Charged_padded(n, pad) == n + pad

\* line 154: what used += bytes adds
Charged(n, pad) == n

\* line 159: the pointer malloc returns
Result(top, pad) == Wrap(top + pad)

\* lines 154-159: used += bytes; return top_of_stack + padding
Return(t) ==
    /\ ~exited
    /\ pc[t] = "L154"
    /\ used' = used + Charged(bytes[t], padding[t])
    /\ allocs' = allocs \cup {[p |-> Result(top_of_stack[t], padding[t]),
                               n |-> bytes[t], a |-> alignment[t],
                               pad |-> padding[t],
                               t |-> t, k |-> call[t],
                               c |-> chunk[t], ins |-> installs[t]]}
    /\ requested' = requested + bytes[t]
    /\ pc' = [pc EXCEPT ![t] = "idle"]
    /\ bytes' = [bytes EXCEPT ![t] = 0]
    /\ alignment' = [alignment EXCEPT ![t] = 1]
    /\ chunk' = [chunk EXCEPT ![t] = NULL]
    /\ top_of_stack' = [top_of_stack EXCEPT ![t] = NULL]
    /\ padding' = [padding EXCEPT ![t] = 0]
    /\ installs' = [installs EXCEPT ![t] = 0]
    /\ UNCHANGED <<serverVars, arrayVars, compVars, block_size, allocated, current_chunk, chunks, memSlots,
                   chain, call, ncalls, exited, rewoundAt>>

\* the chunks reachable from c through next_chunk
RECURSIVE ChainFrom(_)
ChainFrom(c) ==
    IF c = NULL \/ c \notin DOMAIN chunks THEN {}
    ELSE {c} \cup ChainFrom(chunks[c].next_chunk)

\* faulty variant of AfterFree: the walk starts below the top, which leaks
AfterFree_below_top ==
    [c \in DOMAIN chunks \ (ChainFrom(current_chunk) \ {current_chunk}) |-> chunks[c]]

\* lines 180-184: what rewind leaves of the host blocks
AfterFree == [c \in DOMAIN chunks \ ChainFrom(current_chunk) |-> chunks[c]]

\* faulty variant of AfterRewind: current_chunk is left pointing at the freed list
AfterRewind_dangling == [top |-> current_chunk, used |-> 0, allocated |-> 0]

\* lines 189-191: the top and the counters rewind leaves
AfterRewind == [top |-> NULL, used |-> 0, allocated |-> 0]

\* allocator_pool::rewind, called while no other operation is in flight
Rewind ==
    /\ ~exited
    /\ Quiescent
    /\ chunks' = AfterFree
    /\ current_chunk' = AfterRewind.top
    /\ used' = AfterRewind.used
    /\ allocated' = AfterRewind.allocated
    /\ allocs' = {}
    /\ requested' = 0
    /\ rewoundAt' = ncalls
    /\ UNCHANGED <<serverVars, arrayVars, compVars, block_size, memSlots, pc, bytes, alignment, chunk,
                   top_of_stack, padding, chain, call, ncalls, installs, exited>>

Next ==
    \/ \E t \in Threads : Malloc(t)
    \/ \E t \in Threads : LoadTop(t)
    \/ \E t \in Threads : LoadCursor(t)
    \/ \E t \in Threads : AddChunk(t)
    \/ \E t \in Threads : Install(t)
    \/ \E t \in Threads : Account(t)
    \/ \E t \in Threads : Discard(t)
    \/ \E t \in Threads : Continue(t)
    \/ \E t \in Threads : Bump(t)
    \/ \E t \in Threads : Return(t)
    \/ Rewind

Spec == Init /\ [][Next]_vars

(***************************************************************************)
(* malloc with alignment 1 under fair scheduling, on a host that never     *)
(* refuses: the host has more memory than the calls can use.  Without      *)
(* padding the addresses do not enter any test of malloc, so the host      *)
(* hands out the lowest free block.                                        *)
(***************************************************************************)
FairRequests == {<<3, 1>>, <<9, 1>>}     \* <<bytes, alignment>>

InitFair ==
    /\ NoArray /\ NoCompressed /\ NoServer
    /\ \E bs \in BlockSizes : PoolInit(bs, FairSlots)

FairMalloc(t) ==
    /\ ncalls < MaxFairCalls
    /\ \E r \in FairRequests : Call(t, r[1], r[2])

\* lines 57-72: add_chunk on a host that does not refuse and returns the
\* lowest of the addresses it may return
Obtain(t) ==
    /\ ~exited
    /\ pc[t] = "L63"
    /\ \E s \in 1..memSlots :
          /\ HostFree(s * HostAlign, Request(bytes[t]))
          /\ \A x \in 1..(s - 1) : ~HostFree(x * HostAlign, Request(bytes[t]))
          /\ Granted(t, s * HostAlign)

\* the steps of thread t inside malloc
MallocStep(t) ==
    \/ LoadTop(t)
    \/ LoadCursor(t)
    \/ Obtain(t)
    \/ Install(t)
    \/ Account(t)
    \/ Discard(t)
    \/ Continue(t)
    \/ Bump(t)
    \/ Return(t)

NextFair ==
    \/ \E t \in Threads : FairMalloc(t)
    \/ \E t \in Threads : MallocStep(t)

\* finitely many calls under fair scheduling: a thread inside malloc is not
\* stopped for ever
SpecFair ==
    InitFair /\ [][NextFair]_vars /\ \A t \in Threads : WF_vars(MallocStep(t))

(***************************************************************************)
(* dynamic_array<TYPE>.  growth_factor is held as a fraction <<n, d>>; an  *)
(* element of a node's data that no push_back has written holds Unwritten. *)
(***************************************************************************)
Unwritten == 0
OutOfRange == -1
GrowthFactors == {<<1, 1>>, <<3, 2>>, <<2, 1>>}

\* dynamic_array::node::node(pool, size)
NewNode(size) ==
    [data |-> [i \in 1..size |-> Unwritten], next |-> NULL,
     allocated |-> size, used |-> 0]

\* dynamic_array::dynamic_array(pool, initial_size, growth_factor)
ArrayInit(initial_size, factor) ==
    /\ nodes = <<NewNode(initial_size)>>
    /\ head = 1 /\ tail = 1
    /\ growth_factor = factor
    /\ apc = [t \in Threads |-> "idle"]
    /\ last = [t \in Threads |-> NULL]
    /\ slot = [t \in Threads |-> 0]
    /\ another = [t \in Threads |-> NULL]
    /\ element = [t \in Threads |-> 0]
    /\ pushed = <<>>
    /\ reserved = <<>>

ArrayQuiescent == \A t \in Threads : apc[t] = "idle"

\* a thread enters push_back(v)
PushBack(t, v) ==
    /\ apc[t] = "idle"
    /\ element' = [element EXCEPT ![t] = v]
    /\ pushed' = Append(pushed, <<t, v>>)
    /\ apc' = [apc EXCEPT ![t] = "L260"]
    /\ UNCHANGED <<serverVars, poolVars, compVars, head, tail, growth_factor, nodes, last, slot,
                   another, reserved>>

\* line 260: last = tail
LoadTail(t) ==
    /\ apc[t] = "L260"
    /\ last' = [last EXCEPT ![t] = tail]
    /\ apc' = [apc EXCEPT ![t] = "L265"]
    /\ UNCHANGED <<serverVars, poolVars, compVars, head, tail, growth_factor, nodes, slot, another,
                   element, pushed, reserved>>

\* faulty variant of InRange: the test is off by one
InRange_inclusive(s, n) == s <= nodes[n].allocated

\* line 270: the slot lies in the node
InRange(s, n) == s < nodes[n].allocated

\* lines 265-270: slot = last->used++, and the test of the slot
Reserve(t) ==
    /\ apc[t] = "L265"
    /\ slot' = [slot EXCEPT ![t] = nodes[last[t]].used]
    /\ nodes' = [nodes EXCEPT ![last[t]].used = @ + 1]
    /\ apc' = [apc EXCEPT ![t] =
                  IF InRange(nodes[last[t]].used, last[t]) THEN "L275" ELSE "L283"]
    /\ reserved' = IF InRange(nodes[last[t]].used, last[t])
                     THEN Append(reserved, element[t]) ELSE reserved
    /\ UNCHANGED <<serverVars, poolVars, compVars, head, tail, growth_factor, last, another,
                   element, pushed>>

\* lines 275-276: last->data[slot] = element, and push_back returns
Store(t) ==
    /\ apc[t] = "L275"
    /\ nodes' = [nodes EXCEPT ![last[t]].data[slot[t] + 1] = element[t]]
    /\ apc' = [apc EXCEPT ![t] = "idle"]
    /\ last' = [last EXCEPT ![t] = NULL]
    /\ slot' = [slot EXCEPT ![t] = 0]
    /\ element' = [element EXCEPT ![t] = 0]
    /\ UNCHANGED <<serverVars, poolVars, compVars, head, tail, growth_factor, another, pushed, reserved>>

\* line 284: (size_t)(last->allocated * growth_factor)
Grown(allocated_) == (allocated_ * growth_factor[1]) \div growth_factor[2]

\* faulty variant of Close: used is not set back to allocated
Close_unclamped(t) ==
    /\ apc[t] = "L283"
    /\ nodes' = Append(nodes, NewNode(Grown(nodes[last[t]].allocated)))
    /\ another' = [another EXCEPT ![t] = Len(nodes) + 1]
    /\ apc' = [apc EXCEPT ![t] = "L289"]
    /\ UNCHANGED <<serverVars, poolVars, compVars, head, tail, growth_factor, last, slot,
                   element, pushed, reserved>>

\* lines 283-284: last->used = last->allocated, then a node is built in
\* memory taken from the pool
Close(t) ==
    /\ apc[t] = "L283"
    /\ nodes' = Append([nodes EXCEPT ![last[t]].used = nodes[last[t]].allocated],
                       NewNode(Grown(nodes[last[t]].allocated)))
    /\ another' = [another EXCEPT ![t] = Len(nodes) + 1]
    /\ apc' = [apc EXCEPT ![t] = "L289"]
    /\ UNCHANGED <<serverVars, poolVars, compVars, head, tail, growth_factor, last, slot,
                   element, pushed, reserved>>

\* faulty variant of TailSwap: a plain store in place of the compare-and-swap
TailSwap_store(expected, desired) == [ok |-> TRUE, tail |-> desired]

\* line 289: tail.compare_exchange_strong(last, another)
TailSwap(expected, desired) ==
    IF tail = expected THEN [ok |-> TRUE, tail |-> desired]
                       ELSE [ok |-> FALSE, tail |-> tail]

\* faulty variant of Publish: a failed compare-and-swap is tried again with
\* the same expected tail, without going round the loop
Publish_spins(t) ==
    /\ apc[t] = "L289"
    /\ LET r == TailSwap(last[t], another[t])
       IN /\ tail' = r.tail
          /\ apc' = [apc EXCEPT ![t] = IF r.ok THEN "L290" ELSE "L289"]
          /\ another' = another
    /\ UNCHANGED <<serverVars, poolVars, compVars, head, growth_factor, nodes, last, slot,
                   element, pushed, reserved>>

\* faulty variant of Publish: the result of the compare-and-swap is ignored
\* and the node is linked whether or not it became the tail
Publish_unconditional(t) ==
    /\ apc[t] = "L289"
    /\ LET r == TailSwap(last[t], another[t])
       IN /\ tail' = r.tail
          /\ apc' = [apc EXCEPT ![t] = "L290"]
          /\ another' = another
    /\ UNCHANGED <<serverVars, poolVars, compVars, head, growth_factor, nodes, last, slot,
                   element, pushed, reserved>>

\* line 289: make the node the tail, or go round the loop again
Publish(t) ==
    /\ apc[t] = "L289"
    /\ LET r == TailSwap(last[t], another[t])
       IN /\ tail' = r.tail
          /\ apc' = [apc EXCEPT ![t] = IF r.ok THEN "L290" ELSE "L260"]
          /\ another' = [another EXCEPT ![t] = IF r.ok THEN @ ELSE NULL]
    /\ UNCHANGED <<serverVars, poolVars, compVars, head, growth_factor, nodes, last, slot,
                   element, pushed, reserved>>

\* faulty variant of Link: the new tail is never linked to its predecessor
Link_forgets(t) ==
    /\ apc[t] = "L290"
    /\ nodes' = nodes
    /\ another' = [another EXCEPT ![t] = NULL]
    /\ apc' = [apc EXCEPT ![t] = "L260"]
    /\ UNCHANGED <<serverVars, poolVars, compVars, head, tail, growth_factor, last, slot,
                   element, pushed, reserved>>

\* line 290: last->next = another, and round the loop again
Link(t) ==
    /\ apc[t] = "L290"
    /\ nodes' = [nodes EXCEPT ![last[t]].next = another[t]]
    /\ another' = [another EXCEPT ![t] = NULL]
    /\ apc' = [apc EXCEPT ![t] = "L260"]
    /\ UNCHANGED <<serverVars, poolVars, compVars, head, tail, growth_factor, last, slot,
                   element, pushed, reserved>>

\* faulty variant of Back: the head node is read in place of the tail
Back_of_head ==
    IF nodes[head].used \in 1..nodes[head].allocated
      THEN nodes[head].data[nodes[head].used] ELSE OutOfRange

\* dynamic_array::back: tail->data[tail->used - 1]
Back ==
    IF nodes[tail].used \in 1..nodes[tail].allocated
      THEN nodes[tail].data[nodes[tail].used] ELSE OutOfRange

\* faulty variant of AtFrom: the index is not reduced by the elements of
\* the nodes walked past
RECURSIVE AtFrom_same_index(_, _)
AtFrom_same_index(n, e) ==
    IF n = NULL
      THEN (IF 0 < nodes[head].allocated THEN nodes[head].data[1] ELSE OutOfRange)
    ELSE IF e < nodes[n].used
      THEN (IF e < nodes[n].allocated THEN nodes[n].data[e + 1] ELSE OutOfRange)
    ELSE AtFrom_same_index(nodes[n].next, e)

\* lines 321-331: the walk of operator[] from node n with e elements to go;
\* past the end of the list it returns head->data[0]
RECURSIVE AtFrom(_, _)
AtFrom(n, e) ==
    IF n = NULL
      THEN (IF 0 < nodes[head].allocated THEN nodes[head].data[1] ELSE OutOfRange)
    ELSE IF e < nodes[n].used
      THEN (IF e < nodes[n].allocated THEN nodes[n].data[e + 1] ELSE OutOfRange)
    ELSE AtFrom(nodes[n].next, e - nodes[n].used)

\* dynamic_array::operator[](element)
At(e) == AtFrom(head, e)

\* dynamic_array::iterator::operator*
Deref(n, i) ==
    IF i < nodes[n].allocated THEN nodes[n].data[i + 1] ELSE OutOfRange

\* dynamic_array::iterator::operator++ on the iterator at element i of node n:
\* the node and the element of the iterator it leaves, <<NULL, 0>> being end()
Advance(n, i) ==
    IF i + 1 >= nodes[n].used
      THEN <<nodes[n].next, 0>>
      ELSE <<n, i + 1>>

\* for (it = iterator at element i of n; it != end(); ++it) yield *it
RECURSIVE IterateFrom(_, _)
IterateFrom(n, i) ==
    IF n = NULL THEN <<>>
    ELSE <<Deref(n, i)>> \o IterateFrom(Advance(n, i)[1], Advance(n, i)[2])

\* dynamic_array::begin: end() for an array whose head is empty
Begin == IF nodes[head].used = 0 THEN <<NULL, 0>> ELSE <<head, 0>>

\* what a loop from begin() to end() yields in the current state
Iterate == IterateFrom(Begin[1], Begin[2])

(***************************************************************************)
(* Concurrent push_back: the calls carry their number as the value.        *)
(***************************************************************************)
InitArray ==
    /\ NoCompressed /\ NoServer
    /\ \E bs \in BlockSizes : PoolInit(bs, MemSlots)
    /\ \E size \in 1..MaxInitialSize : \E f \in GrowthFactors : ArrayInit(size, f)

Push(t) ==
    /\ Len(pushed) < MaxPush
    /\ PushBack(t, Len(pushed) + 1)

NextArray ==
    \/ \E t \in Threads : Push(t)
    \/ \E t \in Threads : LoadTail(t)
    \/ \E t \in Threads : Reserve(t)
    \/ \E t \in Threads : Store(t)
    \/ \E t \in Threads : Close(t)
    \/ \E t \in Threads : Publish(t)
    \/ \E t \in Threads : Link(t)

SpecArray == InitArray /\ [][NextArray]_vars

\* the steps of thread t inside push_back
PushBackStep(t) ==
    \/ LoadTail(t)
    \/ Reserve(t)
    \/ Store(t)
    \/ Close(t)
    \/ Publish(t)
    \/ Link(t)

FairPush(t) ==
    /\ Len(pushed) < MaxFairPush
    /\ PushBack(t, Len(pushed) + 1)

NextArrayFair ==
    \/ \E t \in Threads : FairPush(t)
    \/ \E t \in Threads : PushBackStep(t)

\* finitely many calls under fair scheduling: a thread inside push_back is
\* not stopped for ever
SpecArrayFair ==
    InitArray /\ [][NextArrayFair]_vars
        /\ \A t \in Threads : WF_vars(PushBackStep(t))

(***************************************************************************)
(* Single-threaded push_back: one call at a time, any values.              *)
(***************************************************************************)
SeqValues == {7, 8}

SeqPush(t) ==
    /\ Len(pushed) < MaxSeqPush
    /\ ArrayQuiescent
    /\ \E v \in SeqValues : PushBack(t, v)

NextArraySeq ==
    \/ \E t \in {1} : SeqPush(t)
    \/ \E t \in {1} : LoadTail(t)
    \/ \E t \in {1} : Reserve(t)
    \/ \E t \in {1} : Store(t)
    \/ \E t \in {1} : Close(t)
    \/ \E t \in {1} : Publish(t)
    \/ \E t \in {1} : Link(t)

SpecArraySeq == InitArray /\ [][NextArraySeq]_vars

(***************************************************************************)
(* The chunk-spill scenario: a pool of block size 64 and malloc(20) with    *)
(* alignment 1 called again and again, never two calls at a time.          *)
(***************************************************************************)
InitSpill == NoArray /\ NoCompressed /\ NoServer /\ PoolInit(64, SpillSlots)

\* the next call is made, by either thread, once the one before has returned
SpillMalloc(t) ==
    /\ ncalls < SpillCalls
    /\ Quiescent
    /\ Call(t, 20, 1)

NextSpill ==
    \/ \E t \in Threads : SpillMalloc(t)
    \/ \E t \in Threads : LoadTop(t)
    \/ \E t \in Threads : LoadCursor(t)
    \/ \E t \in Threads : AddChunk(t)
    \/ \E t \in Threads : Install(t)
    \/ \E t \in Threads : Account(t)
    \/ \E t \in Threads : Continue(t)
    \/ \E t \in Threads : Bump(t)
    \/ \E t \in Threads : Return(t)

SpecSpill == InitSpill /\ [][NextSpill]_vars

(***************************************************************************)
(* Properties of allocator_pool.                                           *)
(***************************************************************************)
Disjoint(r1, r2) == r1.p + r1.n <= r2.p \/ r2.p + r2.n <= r1.p

\* the chunks of the pool's list whose [data, chunk_end] holds the region of r
Holders(r) ==
    {c \in ChainFrom(current_chunk) :
        data(c) <= r.p /\ r.p + r.n <= chunks[c].chunk_end}

\* C1: the regions returned by any two malloc calls with bytes > 0 that have
\* not been rewound are disjoint, whatever the interleaving of the calls.
C1_RegionsDisjoint ==
    \A r1 \in allocs : \A r2 \in allocs :
        (r1 # r2 /\ r1.n > 0 /\ r2.n > 0) => Disjoint(r1, r2)

\* two calls that overlapped in time were served from the same chunk: the one
\* that started later has returned, the earlier one has moved the cursor and
\* not returned yet
C1_Witness ==
    \E t \in Threads : \E r \in allocs :
        /\ pc[t] = "L154" /\ bytes[t] > 0 /\ r.n > 0
        /\ r.t # t /\ r.c = chunk[t] /\ r.k > call[t]

\* C2: every malloc(bytes, alignment) that returns, bytes = 0 included, returns
\* a multiple of alignment, and its region lies between the data start and
\* chunk_end of exactly one chunk of the pool's list.
C2_AlignedInOneChunk ==
    \A r \in allocs :
        /\ r.p % r.a = 0
        /\ Cardinality(Holders(r)) = 1
        /\ Holders(r) = {r.c}

\* a call of no bytes with an alignment above 1 was served with padding
C2_Witness == \E r \in allocs : r.n = 0 /\ r.a > 1 /\ r.pad > 0

\* C3: with no malloc in flight, size() is the sum of the bytes arguments of
\* the calls completed since construction or the last rewind; padding is not
\* counted.
C3_UsedIsSumOfBytes == Quiescent => used = requested

\* both threads have allocated, one of them with padding, and all calls are over
C3_Witness ==
    /\ Quiescent
    /\ \E r1 \in allocs : \E r2 \in allocs :
          r1.t # r2.t /\ r1.n > 0 /\ r2.n > 0 /\ r2.pad > 0

\* C4 as stated: used <= allocated in every reachable state.
C4_UsedWithinAllocatedAlways == used <= allocated

\* C4 as amended: used <= allocated in every state in which no add_chunk is
\* between the compare-and-swap that installed its chunk and its update of
\* the allocated counter.
C4_UsedWithinAllocated ==
    (\A t \in Threads : pc[t] # "L79") => used <= allocated

\* bytes have been handed out while another malloc is still in flight
C4_Witness ==
    /\ used > 0
    /\ \E t \in Threads : pc[t] \in {"L114", "L122", "L63", "L77", "L81", "L150"}
    /\ \A t \in Threads : pc[t] # "L79"

\* C5: right after construction and right after every rewind the pool has no
\* chunk and size() = capacity() = 0, and the malloc that follows is served
\* as on a new pool: every chunk of the list is one it got from the host and
\* installed itself, and it is served from the start of the data of the top.
C5_EmptyAfterRewind ==
    /\ ncalls = rewoundAt =>
          current_chunk = NULL /\ used = 0 /\ allocated = 0 /\ allocs = {}
    /\ \A r \in allocs :
          (r.k = rewoundAt + 1 /\ ncalls = r.k) =>
              /\ r.ins >= 1
              /\ current_chunk = r.c
              /\ ChainFrom(current_chunk) = DOMAIN chunks
              /\ Cardinality(DOMAIN chunks) = r.ins
              /\ r.p = data(r.c) + r.pad
              /\ used = r.n /\ allocated = r.ins * chunks[r.c].chunk_size

\* a malloc has returned after a rewind that followed an earlier malloc
C5_Witness ==
    /\ rewoundAt > 0
    /\ \E r \in allocs : r.k = rewoundAt + 1 /\ ncalls = r.k

\* C6: the chunk installed on behalf of malloc(bytes, alignment) with
\* bytes + alignment > block_size is large enough for the request, with the
\* padding its data start needs, wherever the host has put the chunk.
C6_OversizedChunkFits ==
    \A t \in Threads :
        (pc[t] = "L79" /\ bytes[t] + alignment[t] > block_size) =>
            data(chain[t]) + realign(data(chain[t]), alignment[t]) + bytes[t]
                <= chunks[chain[t]].chunk_end

C8_ThirdCallSpills ==
    \A r \in allocs :
        /\ r.k = 1 => r.ins = 1
        /\ r.k = 2 => r.ins = 0
        /\ r.k = 3 => r.ins = 1

\* C8 as amended: the first three calls are served from the first chunk, 60 of
\* its 64 bytes, and the fourth call is the one that installs a second chunk.
C8_FourthCallSpills ==
    \A r \in allocs :
        /\ r.k = 1 => r.ins = 1 /\ chunks[r.c].next_chunk = NULL
        /\ r.k \in {2, 3} => r.ins = 0 /\ chunks[r.c].next_chunk = NULL
        /\ r.k = 4 => r.ins = 1 /\ chunks[r.c].next_chunk # NULL
        /\ r.k <= 3 => r.p = data(r.c) + 20 * (r.k - 1)

\* the fourth call has returned
C8_Witness == \E r \in allocs : r.k = 4 /\ r.n = 20 /\ block_size = 64

(***************************************************************************)
(* Properties of dynamic_array.                                            *)
(***************************************************************************)
Values(seq) == [i \in 1..Len(seq) |-> seq[i][2]]

\* the values thread t has passed to push_back, in the order of its calls
PushedBy(t) == Values(SelectSeq(pushed, LAMBDA e : e[1] = t))

\* thread t's values as the iteration yields them: a value of call number v
\* belongs to the thread that made the call
YieldedOf(t) ==
    SelectSeq(Iterate, LAMBDA v : v \in 1..Len(pushed) /\ pushed[v][1] = t)

\* C9: single-threaded, for every initial_size >= 1, growth_factor >= 1 and
\* sequence of appended values, a loop from begin() to end() yields exactly
\* the appended values in append order, and nothing for an empty array.
C9_IterationYieldsAppended == ArrayQuiescent => Iterate = Values(pushed)

\* the appended values fill more than two nodes
C9_Witness ==
    /\ ArrayQuiescent
    /\ Len(pushed) = MaxSeqPush
    /\ tail # head /\ nodes[head].next # tail

\* C10: once all concurrent push_back calls have returned, a loop from
\* begin() to end() yields every appended value exactly once and nothing
\* else, the values of each thread in the order the thread appended them.
C10_ConcurrentAppendsAllYielded ==
    ArrayQuiescent =>
        /\ Len(Iterate) = Len(pushed)
        /\ \A v \in 1..Len(pushed) : \E i \in 1..Len(Iterate) : Iterate[i] = v
        /\ \A t \in Threads : YieldedOf(t) = PushedBy(t)

\* both threads have appended, the calls overlapped, and a node built by a
\* push_back that lost the race for the tail was abandoned
C10_Witness ==
    /\ ArrayQuiescent
    /\ Len(pushed) = MaxPush
    /\ \A t \in Threads : Len(PushedBy(t)) > 0
    /\ \E n \in 1..Len(nodes) :
          n # head /\ \A m \in 1..Len(nodes) : nodes[m].next # n

\* the values a loop from begin() to end() yields in the current state
Yielded == {Iterate[i] : i \in 1..Len(Iterate)}

\* C11: once a push_back(value) call of a thread has returned, an iteration
\* from begin() to end() that the thread starts afterwards observes value, in
\* every reachable state, push_back calls of other threads being in flight
\* or not.
C11_ReturnedValueIsIterated ==
    \A t \in Threads :
        apc[t] = "idle" => \A v \in 1..Len(pushed) : pushed[v][1] = t => v \in Yielded

(***************************************************************************)
(* compressed_dynamic_array: the variable-byte code.  uint32_t arithmetic  *)
(* is done on the two 16-bit halves <<high, low>> of the word.             *)
(***************************************************************************)
Half == 65536            \* 2^16, the weight of the high half of a uint32_t
Uninitialised == -1      \* a byte of new uint8_t[size] that was never written

\* the uint32_t of a number below 2^31
Word(n) == <<n \div Half, n % Half>>

\* a | b on 16-bit halves
RECURSIVE BitOr(_, _)
BitOr(a, b) ==
    IF a = 0 THEN b
    ELSE IF b = 0 THEN a
    ELSE (IF a % 2 = 1 \/ b % 2 = 1 THEN 1 ELSE 0) + 2 * BitOr(a \div 2, b \div 2)

\* line 163: (val & ~0x7F) != 0
MoreBytes(val) == val[1] # 0 \/ val[2] >= 128

\* line 165: (uint8_t)((val & 0x7f) | 0x80)
ContinuationByte(val) == BitOr(val[2] % 128, 128)

\* line 166: val >>= 7
ShiftRight7(val) ==
    <<val[1] \div 128, BitOr(val[2] \div 128, (val[1] % 128) * 512)>>

\* line 168: (uint8_t)val
FinalByte(val) == val[2] % 256

\* faulty variant of Encode: one byte for every value
Encode_one_byte(element_) == <<FinalByte(element_)>>

\* lines 162-168: the bytes push_back writes for element, in the order written
RECURSIVE Encode(_)
Encode(element_) ==
    IF MoreBytes(element_)
      THEN <<ContinuationByte(element_)>> \o Encode(ShiftRight7(element_))
      ELSE <<FinalByte(element_)>>

\* line 74: i |= (b & 0x7FL) << shift, the 64-bit result stored in the
\* uint32_t i: bits 32 and above are lost
OrShifted(i, b, shift) ==
    LET part == b % 128
    IN IF shift < 16
         THEN <<BitOr(i[1], (part * 2^shift) \div Half),
                BitOr(i[2], (part * 2^shift) % Half)>>
         ELSE IF shift < 32
           THEN <<BitOr(i[1], (part * 2^(shift - 16)) % Half), i[2]>>
           ELSE i

\* *(data++) on the bytes of a node: the byte under the cursor, the cursor
\* counting from 1
ByteAt(bytes_, cursor) ==
    IF cursor \in 1..Len(bytes_) THEN bytes_[cursor] ELSE Uninitialised

\* lines 71-75: the loop of read_word, b the byte read last
RECURSIVE ReadMore(_, _, _, _, _)
ReadMore(bytes_, cursor, i, b, shift) ==
    IF b >= 128 /\ ByteAt(bytes_, cursor) # Uninitialised
      THEN ReadMore(bytes_, cursor + 1,
                    OrShifted(i, ByteAt(bytes_, cursor), shift),
                    ByteAt(bytes_, cursor), shift + 7)
      ELSE [i |-> i, data |-> cursor]

\* faulty variant of read_word: the continuation bit stays in the result
read_word_keeps_bit(bytes_, cursor) ==
    ReadMore(bytes_, cursor + 1, <<0, ByteAt(bytes_, cursor)>>,
             ByteAt(bytes_, cursor), 7)

\* lines 67-77: iterator::read_word with the cursor at byte cursor of bytes_:
\* the word returned and the cursor left behind
read_word(bytes_, cursor) ==
    ReadMore(bytes_, cursor + 1, <<0, ByteAt(bytes_, cursor) % 128>>,
             ByteAt(bytes_, cursor), 7)

(***************************************************************************)
(* compressed_dynamic_array: construction and push_back, one step for each *)
(* access to tail, used or next.                                           *)
(***************************************************************************)
\* compressed_dynamic_array::node::node(pool, size)
CNewNode(size) ==
    [data |-> [i \in 1..size |-> Uninitialised], next |-> NULL,
     allocated |-> size, used |-> 0]

\* compressed_dynamic_array::compressed_dynamic_array(pool, initial_size,
\* growth_factor)
CompressedInit(initial_size, factor) ==
    /\ cnodes = <<CNewNode(initial_size)>>
    /\ chead = 1 /\ ctail = 1
    /\ cgrowth_factor = factor
    /\ cpc = [t \in Threads |-> "idle"]
    /\ clast = [t \in Threads |-> NULL]
    /\ cval = [t \in Threads |-> <<0, 0>>]
    /\ canother = [t \in Threads |-> NULL]
    /\ celement = [t \in Threads |-> <<0, 0>>]
    /\ cpushed = <<>>

CQuiescent == \A t \in Threads : cpc[t] = "idle"

\* a thread enters push_back(v)
CPushBack(t, v) ==
    /\ cpc[t] = "idle"
    /\ celement' = [celement EXCEPT ![t] = v]
    /\ cpushed' = Append(cpushed, <<t, v>>)
    /\ cpc' = [cpc EXCEPT ![t] = "L157"]
    /\ UNCHANGED <<serverVars, poolVars, arrayVars, chead, ctail, cgrowth_factor, cnodes,
                   clast, cval, canother, velement, vbytes, vword, vpc>>

\* line 157: last = tail
CLoadTail(t) ==
    /\ cpc[t] = "L157"
    /\ clast' = [clast EXCEPT ![t] = ctail]
    /\ cpc' = [cpc EXCEPT ![t] = "L160"]
    /\ UNCHANGED <<serverVars, poolVars, arrayVars, chead, ctail, cgrowth_factor, cnodes,
                   cval, canother, celement, cpushed,
                   velement, vbytes, vword, vpc>>

\* faulty variant of HasRoom: room for a single byte is taken to be enough
HasRoom_one_byte(n) == 0 < cnodes[n].allocated - cnodes[n].used

\* line 160: 7 < last->allocated - last->used, a subtraction of size_t that
\* wraps round to a large number once used has passed allocated
HasRoom(n) ==
    \/ cnodes[n].used > cnodes[n].allocated
    \/ 7 < cnodes[n].allocated - cnodes[n].used

\* lines 160-162: the test of the room left in the node, and val = element
CTest(t) ==
    /\ cpc[t] = "L160"
    /\ cpc' = [cpc EXCEPT ![t] = IF HasRoom(clast[t]) THEN "L163" ELSE "L173"]
    /\ cval' = [cval EXCEPT ![t] = IF HasRoom(clast[t]) THEN celement[t] ELSE @]
    /\ UNCHANGED <<serverVars, poolVars, arrayVars, chead, ctail, cgrowth_factor, cnodes,
                   clast, canother, celement, cpushed,
                   velement, vbytes, vword, vpc>>

\* last->data[last->used++] = byte: the byte goes to the slot the increment
\* hands out; a slot past the end of data is outside the node
PutByte(n, byte) ==
    IF cnodes[n].used < cnodes[n].allocated
      THEN [cnodes EXCEPT ![n].data[cnodes[n].used + 1] = byte,
                          ![n].used = @ + 1]
      ELSE [cnodes EXCEPT ![n].used = @ + 1]

\* lines 163-169: one byte of the value is written; after the last one
\* push_back returns
CWriteByte(t) ==
    /\ cpc[t] = "L163"
    /\ IF MoreBytes(cval[t])
         THEN /\ cnodes' = PutByte(clast[t], ContinuationByte(cval[t]))
              /\ cval' = [cval EXCEPT ![t] = ShiftRight7(@)]
              /\ UNCHANGED <<cpc, clast, celement>>
         ELSE /\ cnodes' = PutByte(clast[t], FinalByte(cval[t]))
              /\ cval' = [cval EXCEPT ![t] = <<0, 0>>]
              /\ cpc' = [cpc EXCEPT ![t] = "idle"]
              /\ clast' = [clast EXCEPT ![t] = NULL]
              /\ celement' = [celement EXCEPT ![t] = <<0, 0>>]
    /\ UNCHANGED <<serverVars, poolVars, arrayVars, chead, ctail, cgrowth_factor,
                   canother, cpushed, velement, vbytes, vword, vpc>>

\* line 173: (size_t)(last->allocated * growth_factor)
CGrown(allocated_) ==
    (allocated_ * cgrowth_factor[1]) \div cgrowth_factor[2]

\* line 173: a node is built in memory taken from the pool
CBuild(t) ==
    /\ cpc[t] = "L173"
    /\ Len(cnodes) < MaxCNodes
    /\ cnodes' = Append(cnodes, CNewNode(CGrown(cnodes[clast[t]].allocated)))
    /\ canother' = [canother EXCEPT ![t] = Len(cnodes) + 1]
    /\ cpc' = [cpc EXCEPT ![t] = "L178"]
    /\ UNCHANGED <<serverVars, poolVars, arrayVars, chead, ctail, cgrowth_factor,
                   clast, cval, celement, cpushed,
                   velement, vbytes, vword, vpc>>

\* line 178: tail.compare_exchange_strong(last, another)
CTailSwap(expected, desired) ==
    IF ctail = expected THEN [ok |-> TRUE, tail |-> desired]
                        ELSE [ok |-> FALSE, tail |-> ctail]

\* line 178: make the node the tail, or go round the loop again
CPublish(t) ==
    /\ cpc[t] = "L178"
    /\ LET r == CTailSwap(clast[t], canother[t])
       IN /\ ctail' = r.tail
          /\ cpc' = [cpc EXCEPT ![t] = IF r.ok THEN "L179" ELSE "L157"]
          /\ canother' = [canother EXCEPT ![t] = IF r.ok THEN @ ELSE NULL]
    /\ UNCHANGED <<serverVars, poolVars, arrayVars, chead, cgrowth_factor, cnodes,
                   clast, cval, celement, cpushed,
                   velement, vbytes, vword, vpc>>

\* line 179: last->next = another, and round the loop again
CLink(t) ==
    /\ cpc[t] = "L179"
    /\ cnodes' = [cnodes EXCEPT ![clast[t]].next = canother[t]]
    /\ canother' = [canother EXCEPT ![t] = NULL]
    /\ cpc' = [cpc EXCEPT ![t] = "L157"]
    /\ UNCHANGED <<serverVars, poolVars, arrayVars, chead, ctail, cgrowth_factor,
                   clast, cval, celement, cpushed,
                   velement, vbytes, vword, vpc>>

(***************************************************************************)
(* compressed_dynamic_array: the iterator.  An iterator is                 *)
(* [current_node, element, data], data the cursor into the bytes of        *)
(* current_node, counted from 1, or NULL for nullptr.                      *)
(***************************************************************************)
\* line 80: iterator(node): current_node(node), element(0), data(nullptr)
CIterator(node) == [current_node |-> node, element |-> <<0, 0>>, data |-> NULL]

\* line 148: end()
CEnd == CIterator(NULL)

\* lines 137-143: begin()
CBegin == IF cnodes[chead].used = 0 THEN CEnd ELSE CIterator(chead)

\* line 87: operator!=, a comparison of the data pointers alone
CNotEqual(it, other) == it.data # other.data

\* line 95: operator*
CStar(it) == it.element

\* lines 100-114: operator++ of an iterator whose data points into its node
CPlusPlus(it) ==
    LET n == it.current_node
        r == read_word(cnodes[n].data, it.data)
    IN IF r.data >= 1 + cnodes[n].used
         THEN [current_node |-> cnodes[n].next, element |-> r.i,
               data |-> IF cnodes[n].next = NULL THEN NULL ELSE 1]
         ELSE [current_node |-> n, element |-> r.i, data |-> r.data]

\* for (; it != end(); ++it) yield *it
RECURSIVE CIterateFrom(_)
CIterateFrom(it) ==
    IF CNotEqual(it, CEnd)
      THEN <<CStar(it)>> \o CIterateFrom(CPlusPlus(it))
      ELSE <<>>

\* what a loop from begin() to end() yields in the current state
CIterate == CIterateFrom(CBegin)

(***************************************************************************)
(* Single-threaded compressed push_back: one call at a time, on an array   *)
(* built with the default arguments or with others.                        *)
(***************************************************************************)
\* <<initial_size, growth_factor>>; line 130: the defaults are 1 and 1.5
DefaultArguments == <<1, <<3, 2>>>>
CArguments == {DefaultArguments, <<1, <<2, 1>>>>, <<8, <<1, 1>>>>, <<12, <<3, 2>>>>}

\* the values of the worked example: 0, 127, 128, 16383, 16384 and 2^32 - 1
Scenario ==
    <<Word(0), Word(127), Word(128), Word(16383), Word(16384), <<65535, 65535>>>>

CSeqValues == {Scenario[k] : k \in 1..Len(Scenario)}

\* the values of the push_back calls made so far, in the order of the calls
CValues == [k \in 1..Len(cpushed) |-> cpushed[k][2]]

InitCompressedSeq ==
    /\ NoArray /\ NoVarint /\ NoServer
    /\ \E bs \in BlockSizes : PoolInit(bs, MemSlots)
    /\ \E a \in CArguments : CompressedInit(a[1], a[2])

\* every sequence of up to MaxCSeqPush values, and the worked example in full
CSeqPush(t) ==
    /\ CQuiescent
    /\ \E v \in CSeqValues :
          /\ \/ Len(cpushed) < MaxCSeqPush
             \/ /\ Len(cpushed) < Len(Scenario)
                /\ Append(CValues, v) = SubSeq(Scenario, 1, Len(cpushed) + 1)
          /\ CPushBack(t, v)

NextCompressedSeq ==
    \/ \E t \in {1} : CSeqPush(t)
    \/ \E t \in {1} : CLoadTail(t)
    \/ \E t \in {1} : CTest(t)
    \/ \E t \in {1} : CWriteByte(t)
    \/ \E t \in {1} : CBuild(t)
    \/ \E t \in {1} : CPublish(t)
    \/ \E t \in {1} : CLink(t)

SpecCompressedSeq == InitCompressedSeq /\ [][NextCompressedSeq]_vars

(***************************************************************************)
(* Concurrent compressed push_back: each thread appends an ascending range *)
(* of its own, of two-byte values.                                         *)
(***************************************************************************)
\* the first value of the range of each thread
RangeStart == <<128, 300>>

CConcurrentArguments == {<<8, <<1, 1>>>>, <<12, <<3, 2>>>>}

\* the values thread t has passed to push_back, in the order of its calls
CPushedBy(t) ==
    LET mine == SelectSeq(cpushed, LAMBDA e : e[1] = t)
    IN [k \in 1..Len(mine) |-> mine[k][2]]

InitCompressed ==
    /\ NoArray /\ NoVarint /\ NoServer
    /\ \E bs \in BlockSizes : PoolInit(bs, MemSlots)
    /\ \E a \in CConcurrentArguments : CompressedInit(a[1], a[2])

\* thread t appends the next value of its range
CPush(t) ==
    /\ Len(CPushedBy(t)) < RangeLen
    /\ CPushBack(t, Word(RangeStart[t] + Len(CPushedBy(t))))

NextCompressed ==
    \/ \E t \in Threads : CPush(t)
    \/ \E t \in Threads : CLoadTail(t)
    \/ \E t \in Threads : CTest(t)
    \/ \E t \in Threads : CWriteByte(t)
    \/ \E t \in Threads : CBuild(t)
    \/ \E t \in Threads : CPublish(t)
    \/ \E t \in Threads : CLink(t)

SpecCompressed == InitCompressed /\ [][NextCompressed]_vars

(***************************************************************************)
(* Decoding the node chain: the words read_word returns for the first used *)
(* bytes of each node, the nodes taken from head along next.               *)
(***************************************************************************)
\* the bytes of node n that push_back has handed out and that lie in the node
UsedBytes(n) ==
    SubSeq(cnodes[n].data, 1,
           IF cnodes[n].used < cnodes[n].allocated THEN cnodes[n].used
                                                   ELSE cnodes[n].allocated)

\* read_word again and again from byte cursor to the end of bytes_
RECURSIVE DecodeBytes(_, _)
DecodeBytes(bytes_, cursor) ==
    IF cursor > Len(bytes_) THEN <<>>
    ELSE <<read_word(bytes_, cursor).i>>
            \o DecodeBytes(bytes_, read_word(bytes_, cursor).data)

RECURSIVE DecodeFrom(_)
DecodeFrom(n) ==
    IF n = NULL THEN <<>>
    ELSE DecodeBytes(UsedBytes(n), 1) \o DecodeFrom(cnodes[n].next)

Decoded == DecodeFrom(chead)

\* the first used bytes of the nodes from n on, in node order
RECURSIVE ChainBytesFrom(_)
ChainBytesFrom(n) ==
    IF n = NULL THEN <<>> ELSE UsedBytes(n) \o ChainBytesFrom(cnodes[n].next)

\* the encodings of the values of seq, one after the other
RECURSIVE EncodeAll(_)
EncodeAll(seq) ==
    IF seq = <<>> THEN <<>> ELSE Encode(Head(seq)) \o EncodeAll(Tail(seq))

(***************************************************************************)
(* The variable-byte code on its own: a value is encoded as push_back      *)
(* encodes it, and read_word is applied to the bytes.                      *)
(***************************************************************************)
\* 2^k as a uint32_t, k in 0..31
PowerOfTwo(k) == IF k < 16 THEN <<0, 2^k>> ELSE <<2^(k - 16), 0>>

\* 2^k - 1 as a uint32_t, k in 0..32
BelowPowerOfTwo(k) ==
    IF k <= 16 THEN <<0, 2^k - 1>> ELSE <<2^(k - 16) - 1, Half - 1>>

\* the values at which the bit width changes, the small values, and words
\* with bits in both halves
VarintInputs ==
    {PowerOfTwo(k) : k \in 0..31} \cup {BelowPowerOfTwo(k) : k \in 0..32}
        \cup {Word(n) : n \in 0..MaxSmallWord}
        \cup {<<h, l>> : h \in {1, 4660, 32768, 65535}, l \in {1, 127, 22136, 65535}}

InitVarint ==
    /\ NoArray /\ NoCompressedArray /\ NoServer
    /\ \E bs \in BlockSizes : PoolInit(bs, MemSlots)
    /\ velement \in VarintInputs
    /\ vbytes = <<>>
    /\ vword = [i |-> <<0, 0>>, data |-> 0]
    /\ vpc = "encode"

\* push_back, lines 162-168: the bytes written for velement
VEncode ==
    /\ vpc = "encode"
    /\ vbytes' = Encode(velement)
    /\ vpc' = "decode"
    /\ UNCHANGED <<serverVars, poolVars, arrayVars, chead, ctail, cgrowth_factor, cnodes,
                   cpc, clast, cval, canother, celement, cpushed,
                   velement, vword>>

\* iterator::read_word with the cursor on the first of the bytes
VDecode ==
    /\ vpc = "decode"
    /\ vword' = read_word(vbytes, 1)
    /\ vpc' = "done"
    /\ UNCHANGED <<serverVars, poolVars, arrayVars, chead, ctail, cgrowth_factor, cnodes,
                   cpc, clast, cval, canother, celement, cpushed,
                   velement, vbytes>>

NextVarint == VEncode \/ VDecode

SpecVarint == InitVarint /\ [][NextVarint]_vars


(***************************************************************************)
(* Properties of compressed_dynamic_array.                                 *)
(***************************************************************************)
\* C12: single-threaded, for every sequence of values appended with
\* push_back, the loop that starts at begin(), reads *it and advances with
\* ++it until it compares equal to end() yields exactly the appended values,
\* in append order, each exactly once.
C12_CompressedIterationYieldsAppended == CQuiescent => CIterate = CValues

\* the words of seq that lie in the range of thread t
InRangeOf(t, seq) ==
    SelectSeq(seq, LAMBDA w : \E k \in 0..(RangeLen - 1) :
                                  w = Word(RangeStart[t] + k))

\* C13: after the threads have concurrently appended disjoint ascending
\* ranges and all calls have returned, decoding the node chain yields a
\* permutation of all appended values in which the values of each thread
\* appear in ascending order.
C13_ConcurrentRangesDecoded ==
    CQuiescent =>
        /\ Len(Decoded) = Len(cpushed)
        /\ \A t \in Threads : InRangeOf(t, Decoded) = CPushedBy(t)

\* bit j of a uint32_t
Bit(w, j) ==
    IF j < 16 THEN (w[2] \div 2^j) % 2
    ELSE IF j < 32 THEN (w[1] \div 2^(j - 16)) % 2
    ELSE 0

\* std::bit_width: 0 for 0, else one more than the position of the top bit
BitWidth(w) ==
    IF w = <<0, 0>> THEN 0
    ELSE 1 + CHOOSE j \in 0..31 : Bit(w, j) = 1 /\ \A k \in (j + 1)..31 : Bit(w, k) = 0

\* digit d of a uint32_t in base 128, digit 0 the least significant
Digit(w, d) ==
    Bit(w, 7 * d) + 2 * Bit(w, 7 * d + 1) + 4 * Bit(w, 7 * d + 2)
        + 8 * Bit(w, 7 * d + 3) + 16 * Bit(w, 7 * d + 4)
        + 32 * Bit(w, 7 * d + 5) + 64 * Bit(w, 7 * d + 6)

\* max(1, ceil(bit_width(w) / 7))
EncodedLength(w) == Max(1, (BitWidth(w) + 6) \div 7)

\* C14: the bytes push_back writes for a value v are max(1,
\* ceil(bit_width(v) / 7)) in number, at most five, and are the base-128
\* digits of v, least significant first, with the high bit set on every byte
\* but the last; 0 is the single byte 0x00 and 2^32 - 1 is five bytes, the
\* last one 0x0F.
C14_VarintBytes ==
    vpc # "encode" =>
        /\ Len(vbytes) = EncodedLength(velement)
        /\ Len(vbytes) <= 5
        /\ \A k \in 1..Len(vbytes) :
              /\ vbytes[k] % 128 = Digit(velement, k - 1)
              /\ vbytes[k] \in 0..255
              /\ (vbytes[k] >= 128) <=> (k < Len(vbytes))
        /\ velement = <<0, 0>> => vbytes = <<0>>
        /\ velement = <<65535, 65535>> => vbytes = <<255, 255, 255, 255, 15>>

\* 2^32 - 1 has been encoded
C14_Witness == vpc # "encode" /\ velement = <<65535, 65535>> /\ Len(vbytes) = 5

\* C15: read_word applied to the bytes push_back writes for a value returns
\* the value and advances the byte cursor by exactly the encoded length.
C15_VarintRoundTrip ==
    vpc = "done" =>
        /\ vword.i = velement
        /\ vword.data = 1 + Len(vbytes)

\* a value of three bytes and one of five have been read back
C15_Witness == vpc = "done" /\ Len(vbytes) \in {3, 5} /\ vword.i[1] > 0

\* the sum of used over the nodes from n on
RECURSIVE SumUsedFrom(_)
SumUsedFrom(n) ==
    IF n = NULL THEN 0 ELSE cnodes[n].used + SumUsedFrom(cnodes[n].next)

\* C16: with a single writer, the first used bytes of the nodes, taken in
\* node order, are the encodings of the appended values in append order with
\* nothing in between, so the sum of used over the chain is the sum of the
\* encoded lengths: 14 for 0, 127, 128, 16383, 16384, 2^32 - 1.
C16_ChainIsEncodings ==
    CQuiescent =>
        /\ ChainBytesFrom(chead) = EncodeAll(CValues)
        /\ SumUsedFrom(chead) = Len(EncodeAll(CValues))
        /\ \A n \in 1..Len(cnodes) : cnodes[n].used <= cnodes[n].allocated
        /\ CValues = Scenario => SumUsedFrom(chead) = 14

\* the six values of the worked example are in the array, in several nodes
C16_Witness ==
    /\ CQuiescent
    /\ CValues = Scenario
    /\ ctail # chead
    /\ cnodes[chead].used > 0

\* the array was built with the default arguments
DefaultArray ==
    /\ cnodes[chead].allocated = DefaultArguments[1]
    /\ cgrowth_factor = DefaultArguments[2]

\* C17: on an array built with the default arguments every single-threaded
\* push_back terminates, because the successor nodes grow until the tail has
\* more than 7 free bytes: a node that push_back links behind a node is
\* larger than that node.
C17_DefaultSuccessorsGrow ==
    DefaultArray =>
        \A n \in 1..Len(cnodes) :
            cnodes[n].next # NULL =>
                cnodes[cnodes[n].next].allocated > cnodes[n].allocated

\* C18: the host never refusing, with initial_size >= 1, growth_factor >= 1
\* and finitely many dynamic_array::push_back calls made by finitely many
\* threads under fair scheduling, every push_back call eventually returns.
C18_PushBackReturns ==
    \A t \in Threads : (apc[t] # "idle") ~> (apc[t] = "idle")

\* all the calls have returned, some of them after a compare-and-swap of the
\* tail that failed: a node was built in vain
C18_Witness ==
    /\ ArrayQuiescent
    /\ Len(pushed) = MaxFairPush
    /\ Cardinality({n \in 1..Len(nodes) : nodes[n].used = 0 /\ n # tail}) > 0

(***************************************************************************)
(* Progress of allocator_pool::malloc.                                     *)
(***************************************************************************)
\* the compare-and-swap of the cursor (line 150) that thread t is about to
\* make fails only on a cursor that has moved on from where t read it, and
\* the compare-and-swap of the top (line 77) fails only on a top under which
\* the chunk t read as the top now lies, or which was installed on the
\* empty list
FailedSwapHasCause(t) ==
    /\ (pc[t] = "L150" /\ pc'[t] = "L114") =>
          chunks[chunk[t]].chunk_at > top_of_stack[t]
    /\ (pc[t] = "L77" /\ pc'[t] = "L81") =>
          /\ current_chunk # NULL
          /\ chunks[chain[t]].next_chunk \in
                ChainFrom(chunks[current_chunk].next_chunk) \cup {NULL}

\* C19: the host never refusing, finitely many threads each issuing finitely
\* many malloc calls with alignment 1 under fair scheduling all eventually
\* return, and a loop iteration whose compare-and-swap of the cursor or of
\* the top fails is always caused by another thread having advanced that
\* cursor or installed a chunk in between.
C19_MallocReturns ==
    /\ \A t \in Threads : (pc[t] # "idle") ~> (pc[t] = "idle")
    /\ [][\A t \in Threads : FailedSwapHasCause(t)]_vars

\* the compare-and-swap of the top of one thread has failed, and a call of
\* another thread has returned
C19_Witness ==
    \E t \in Threads :
        /\ pc[t] = "L81"
        /\ \E r \in allocs : r.t # t

(***************************************************************************)
(* dynamic_array::back.                                                    *)
(***************************************************************************)
\* C20: when no push_back is in flight and at least one element has been
\* appended, back() returns the element stored by the push_back that was the
\* last to take a slot: the tail node is never empty and its used is within
\* its capacity.
C20_BackIsLastReserved ==
    (ArrayQuiescent /\ Len(pushed) > 0) =>
        /\ Len(reserved) = Len(pushed)
        /\ nodes[tail].used \in 1..nodes[tail].allocated
        /\ Back = reserved[Len(reserved)]

\* all calls have returned, the slots were not taken in the order of the
\* calls, and the array has grown
C20_Witness ==
    /\ ArrayQuiescent
    /\ Len(pushed) = MaxPush
    /\ reserved # Values(pushed)
    /\ tail # head

(***************************************************************************)
(* dynamic_array::operator[].                                              *)
(***************************************************************************)
\* C21: when no push_back is in flight, operator[](i) returns for every i
\* below the number of appended elements the i-th element in append order
\* (the order in which the calls took their slots), the same element the
\* iterator yields at position i.
C21_IndexIsIthElement ==
    ArrayQuiescent =>
        /\ Len(Iterate) = Len(pushed)
        /\ \A i \in 0..(Len(pushed) - 1) :
              /\ At(i) = reserved[i + 1]
              /\ At(i) = Iterate[i + 1]

\* the elements lie in three nodes or more and were not appended in the
\* order of the calls
C21_Witness ==
    /\ ArrayQuiescent
    /\ Len(pushed) = MaxPush
    /\ nodes[head].next # NULL /\ nodes[head].next # tail
    /\ reserved # Values(pushed)
    /\ At(MaxPush - 1) = reserved[MaxPush]

(***************************************************************************)
(* The chunks of allocator_pool.                                           *)
(***************************************************************************)
\* the chunks of the pool's list
List == ChainFrom(current_chunk)

\* C22: for every chunk in the pool's list, in every reachable state,
\* data <= chunk_at <= chunk_end, and chunk_at never decreases between the
\* installation of the chunk and the next rewind.
C22_CursorWithinChunk ==
    /\ [](\A c \in List :
             data(c) <= chunks[c].chunk_at /\ chunks[c].chunk_at <= chunks[c].chunk_end)
    /\ [][\A c \in List :
             c \in List' => chunks'[c].chunk_at >= chunks[c].chunk_at]_vars

\* a chunk of the list is full and lies under a chunk that is in use
C22_Witness ==
    \E c \in List :
        /\ chunks[c].chunk_at = chunks[c].chunk_end
        /\ c # current_chunk
        /\ chunks[current_chunk].chunk_at > data(current_chunk)

\* a step of rewind on a pool that has chunks: nothing else sets the top to
\* nullptr
RewindStep == current_chunk # NULL /\ current_chunk' = NULL

\* C23: between rewinds the chunk list only grows at the top: a chunk once
\* installed as current_chunk stays reachable from current_chunk and its
\* next_chunk and chunk_end never change; rewind() hands every chunk of the
\* list back to the host exactly once and frees nothing else.
C23_ListGrowsAtTop ==
    [][IF RewindStep
         THEN /\ DOMAIN chunks' = DOMAIN chunks \ List
              /\ \A c \in DOMAIN chunks' : chunks'[c] = chunks[c]
         ELSE /\ \A c \in List :
                    /\ c \in List'
                    /\ chunks'[c].next_chunk = chunks[c].next_chunk
                    /\ chunks'[c].chunk_end = chunks[c].chunk_end
              /\ List' # List =>
                    /\ List' = List \cup {current_chunk'}
                    /\ chunks'[current_chunk'].next_chunk = current_chunk
       ]_vars

\* a rewind has handed a list back to the host and the list has since grown
\* to two chunks
C23_Witness == rewoundAt > 0 /\ Cardinality(List) > 1

\* C24: the chunk requested from the host on behalf of malloc(size,
\* alignment) has capacity max(block_size, size + alignment) + header size,
\* so that a freshly installed chunk can always hold the request together
\* with its worst-case alignment padding.
C24_ChunkCapacityCoversAlignment ==
    \A t \in Threads :
        pc[t] \in {"L77", "L79", "L81"} =>
            /\ chunks[chain[t]].chunk_size =
                  Max(block_size, bytes[t] + alignment[t]) + ChunkHeader
            /\ chunks[chain[t]].chunk_end - data(chain[t])
                  >= bytes[t] + alignment[t] - 1

\* C25: a malloc call installs a new chunk only if the top of the pool is
\* still the chunk, or none, that the call observed as unable to satisfy its
\* request, so no chunk is installed on top of a chunk that could have
\* satisfied the request.
C25_InstalledOnObservedTop ==
    \A t \in Threads :
        pc[t] = "L79" =>
            /\ chunks[chain[t]].next_chunk = chunk[t]
            /\ NoRoom(chunks[chain[t]].next_chunk, top_of_stack[t],
                      bytes[t], padding[t])

\* the sum of chunk_size over the chunks from c on
RECURSIVE SizeFrom(_)
SizeFrom(c) ==
    IF c = NULL THEN 0 ELSE chunks[c].chunk_size + SizeFrom(chunks[c].next_chunk)

\* C26: whenever no malloc is in flight, capacity() equals the sum of
\* chunk_size over the chunks reachable from current_chunk; a chunk whose
\* installation compare-and-swap lost is freed, never becomes reachable and
\* is not counted.
C26_CapacityIsSumOfChunks ==
    /\ Quiescent =>
          /\ allocated = SizeFrom(current_chunk)
          /\ DOMAIN chunks = List
    /\ \A t \in Threads : pc[t] \in {"L77", "L81"} => chain[t] \notin List

\* no malloc is in flight, both threads have been served and the list has
\* two chunks
C26_Witness ==
    /\ Quiescent
    /\ Cardinality(List) = 2
    /\ \A t \in Threads : \E r \in allocs : r.t = t

Overshooting(n) == {t \in Threads : apc[t] = "L283" /\ last[t] = n}

Passed(n) ==
    \/ nodes[n].next # NULL
    \/ \E t \in Threads : apc[t] = "L290" /\ last[t] = n

\* C28: in every reachable state, every node that tail has advanced past, in
\* particular every node whose next is set, has used = allocated, so a
\* reader that sees a non-null next never sees used above the capacity.
C28_PassedNodesAreFull ==
    \A n \in 1..Len(nodes) :
        Passed(n) => nodes[n].used = nodes[n].allocated

\* the nodes met from node n on by following next links
RECURSIVE NodesFrom(_)
NodesFrom(n) ==
    IF n = NULL THEN {} ELSE {n} \cup NodesFrom(nodes[n].next)

\* the same for a compressed_dynamic_array
RECURSIVE CNodesFrom(_)
CNodesFrom(n) ==
    IF n = NULL THEN {} ELSE {n} \cup CNodesFrom(cnodes[n].next)

\* C29: in every reachable state of a dynamic_array, the states between the
\* steps of concurrent push_back calls included, tail is reachable from head
\* by following next links.
C29_TailReachableFromHead == tail \in NodesFrom(head)

\* the same statement for a compressed_dynamic_array
C29_CompressedTailReachable == ctail \in CNodesFrom(chead)

\* the nodes reachable from head or from tail
Linked == NodesFrom(head) \cup NodesFrom(tail)

\* the node that follows n: the one its next names, or the one that the
\* thread between the compare-and-swap and line 290 is about to link
Successor(n) ==
    IF nodes[n].next # NULL THEN nodes[n].next
    ELSE IF \E t \in Threads : apc[t] = "L290" /\ last[t] = n
         THEN another[CHOOSE t \in Threads : apc[t] = "L290" /\ last[t] = n]
         ELSE NULL

\* the nodes that have been tail, in order
RECURSIVE InstalledFrom(_)
InstalledFrom(n) ==
    IF n = NULL THEN {} ELSE {n} \cup InstalledFrom(Successor(n))

\* the nodes that were never tail and that no thread holds any longer
Abandoned ==
    {n \in 1..Len(nodes) :
        n \notin InstalledFrom(head) /\ \A t \in Threads : another[t] # n}

\* thread t wins the compare-and-swap of line 289 in this step
Wins(t) ==
    /\ apc[t] = "L289" /\ apc'[t] = "L290"
    /\ tail = last[t] /\ tail' = another[t]
    /\ last'[t] = last[t] /\ another'[t] = another[t]

\* C30: a node's next is written at most once, only by the thread whose
\* compare-and-swap moved tail from that node to the new node and always with
\* that new node; tail never moves back to an earlier node; a node whose
\* compare-and-swap lost never becomes reachable from head or tail.
C30_LinkedOnceByWinner ==
    [][/\ \A n \in 1..Len(nodes) :
             nodes'[n].next # nodes[n].next =>
                 /\ nodes[n].next = NULL
                 /\ \E t \in Threads : /\ apc[t] = "L290" /\ last[t] = n
                                       /\ nodes'[n].next = another[t]
       /\ \A t \in Threads : apc'[t] = "L290" => apc[t] = "L290" \/ Wins(t)
       /\ \A t \in Threads :
             apc[t] = "L290" /\ apc'[t] = "L290" =>
                 last'[t] = last[t] /\ another'[t] = another[t]
       /\ tail' # tail => tail' > tail /\ \E t \in Threads : Wins(t)
       /\ \A t \in Threads :
             apc[t] = "L289" /\ apc'[t] = "L260" => another[t] \in Abandoned'
       /\ \A n \in Abandoned : n \in Abandoned' /\ n \notin Linked']_vars

\* both threads have lost a compare-and-swap and left a node behind, and two
\* links have been written
C30_Witness ==
    /\ Cardinality(Abandoned) >= 2
    /\ Cardinality(NodesFrom(head)) >= 3
    /\ \A t \in Threads : apc[t] = "idle"

\* the same for a compressed_dynamic_array (lines 178 and 179)
CLinked == CNodesFrom(chead) \cup CNodesFrom(ctail)

CSuccessor(n) ==
    IF cnodes[n].next # NULL THEN cnodes[n].next
    ELSE IF \E t \in Threads : cpc[t] = "L179" /\ clast[t] = n
         THEN canother[CHOOSE t \in Threads : cpc[t] = "L179" /\ clast[t] = n]
         ELSE NULL

RECURSIVE CInstalledFrom(_)
CInstalledFrom(n) ==
    IF n = NULL THEN {} ELSE {n} \cup CInstalledFrom(CSuccessor(n))

CAbandoned ==
    {n \in 1..Len(cnodes) :
        n \notin CInstalledFrom(chead) /\ \A t \in Threads : canother[t] # n}

CWins(t) ==
    /\ cpc[t] = "L178" /\ cpc'[t] = "L179"
    /\ ctail = clast[t] /\ ctail' = canother[t]
    /\ clast'[t] = clast[t] /\ canother'[t] = canother[t]

C30_CompressedLinkedOnceByWinner ==
    [][/\ \A n \in 1..Len(cnodes) :
             cnodes'[n].next # cnodes[n].next =>
                 /\ cnodes[n].next = NULL
                 /\ \E t \in Threads : /\ cpc[t] = "L179" /\ clast[t] = n
                                       /\ cnodes'[n].next = canother[t]
       /\ \A t \in Threads : cpc'[t] = "L179" => cpc[t] = "L179" \/ CWins(t)
       /\ \A t \in Threads :
             cpc[t] = "L179" /\ cpc'[t] = "L179" =>
                 clast'[t] = clast[t] /\ canother'[t] = canother[t]
       /\ ctail' # ctail => ctail' > ctail /\ \E t \in Threads : CWins(t)
       /\ \A t \in Threads :
             cpc[t] = "L178" /\ cpc'[t] = "L157" => canother[t] \in CAbandoned'
       /\ \A n \in CAbandoned : n \in CAbandoned' /\ n \notin CLinked']_vars

(***************************************************************************)
(* The capacity of a successor node.                                       *)
(***************************************************************************)
\* the least integer that is no less than c * f[1] / f[2]
Ceiling(c, f) == (c * f[1] + f[2] - 1) \div f[2]

\* C31: the successor node that push_back allocates when it finds the tail
\* node of capacity c closed has capacity ceil(c * growth_factor), and at
\* least c + 1.
C31_SuccessorIsCeiling ==
    \A n \in 1..Len(nodes) :
        nodes[n].next # NULL =>
            /\ nodes[nodes[n].next].allocated = Ceiling(nodes[n].allocated, growth_factor)
            /\ nodes[nodes[n].next].allocated >= nodes[n].allocated + 1

\* the same statement for a compressed_dynamic_array
C31_CompressedSuccessorIsCeiling ==
    \A n \in 1..Len(cnodes) :
        cnodes[n].next # NULL =>
            /\ cnodes[cnodes[n].next].allocated = Ceiling(cnodes[n].allocated, cgrowth_factor)
            /\ cnodes[cnodes[n].next].allocated >= cnodes[n].allocated + 1

(***************************************************************************)
(* Concurrent appends to a compressed_dynamic_array.                       *)
(***************************************************************************)
\* thread t has written some but not all of the bytes of its value
MidAppend(t) == cpc[t] = "L163" /\ cval[t] # celement[t]

\* C32: under any interleaving of concurrent push_back calls the bytes of
\* one appended value occupy consecutive positions of a single node: while a
\* call is between its first and its last byte, no other call takes a
\* position of the node it writes to.
C32_AppendOwnsItsBytes ==
    [][\A t \in Threads :
          MidAppend(t) /\ cnodes'[clast[t]].used # cnodes[clast[t]].used
              => cval'[t] # cval[t]]_vars

\* C33: for a compressed_dynamic_array holding at least one value,
\* begin() != end() is true, and an iterator compares equal to end() only
\* once its node is none.
C33_BeginIsNotEnd ==
    CQuiescent /\ Len(cpushed) >= 1 =>
        /\ CNotEqual(CBegin, CEnd)
        /\ ~CNotEqual(CBegin, CEnd) => CBegin.current_node = NULL

(***************************************************************************)
(* Concurrent compressed push_back of five-byte values: two threads, each  *)
(* appending the largest uint32_t.                                         *)
(***************************************************************************)
MaxWidePush == 2

\* 2^32 - 1, whose encoding takes five bytes
WideValue == <<65535, 65535>>

CWidePush(t) ==
    /\ Len(CPushedBy(t)) < MaxWidePush
    /\ CPushBack(t, WideValue)

NextCompressedWide ==
    \/ \E t \in Threads : CWidePush(t)
    \/ \E t \in Threads : CLoadTail(t)
    \/ \E t \in Threads : CTest(t)
    \/ \E t \in Threads : CWriteByte(t)
    \/ \E t \in Threads : CBuild(t)
    \/ \E t \in Threads : CPublish(t)
    \/ \E t \in Threads : CLink(t)

SpecCompressedWide == InitCompressed /\ [][NextCompressedWide]_vars

\* C34: no push_back ever writes a byte at an index >= the node's allocated
\* size, and used <= allocated holds for every byte node in every reachable
\* state, under any interleaving of concurrent appends.
C34_BytesWithinNode ==
    \A n \in 1..Len(cnodes) : cnodes[n].used <= cnodes[n].allocated

(***************************************************************************)
(* Iteration over a dynamic_array while push_back calls are in flight.     *)
(***************************************************************************)
\* C35: an iteration running concurrently with push_back calls only yields
\* elements that some push_back has already written: never a slot that is
\* reserved but not yet written, a slot at an index >= the node's capacity,
\* or slot 0 of a linked but still empty node.
C35_IterationYieldsWritten ==
    \A k \in 1..Len(Iterate) : Iterate[k] \notin {Unwritten, OutOfRange}

(***************************************************************************)
(* dynamic_array at rest.                                                  *)
(***************************************************************************)
\* the sum of used over the nodes from n on
RECURSIVE UsedFrom(_)
UsedFrom(n) ==
    IF n = NULL THEN 0 ELSE nodes[n].used + UsedFrom(nodes[n].next)

\* C36: whenever no push_back is in flight (initial_size >= 1), every node
\* before tail has used = allocated, the tail has used <= allocated, every
\* next link from head up to tail is set and tail's next is null, and the sum
\* of used over the chain is the number of completed push_back calls.
C36_ChainAtRest ==
    ArrayQuiescent =>
        /\ tail \in NodesFrom(head)
        /\ nodes[tail].next = NULL
        /\ nodes[tail].used <= nodes[tail].allocated
        /\ \A n \in NodesFrom(head) \ {tail} :
              nodes[n].next # NULL /\ nodes[n].used = nodes[n].allocated
        /\ UsedFrom(head) = Len(pushed)

\* at rest after MaxPush concurrent calls, with three nodes in the chain and
\* a node left behind by a compare-and-swap that failed
C36_Witness ==
    /\ ArrayQuiescent
    /\ Len(pushed) = MaxPush
    /\ Cardinality(NodesFrom(head)) >= 3
    /\ Abandoned # {}

(***************************************************************************)
(* malloc of sizes close to the largest size_t.                            *)
(***************************************************************************)
MaxWrapCalls == 2

\* <<bytes, alignment>>: a small request, and three whose sums wrap round
WrapRequests ==
    {<<3, 1>>, <<SizeMax - 5, 1>>, <<SizeMax - 35, 1>>, <<SizeMax - 15, 16>>}

WrapMalloc(t) ==
    /\ ncalls < MaxWrapCalls
    /\ \E r \in WrapRequests : Call(t, r[1], r[2])

NextWrap ==
    \/ \E t \in Threads : WrapMalloc(t)
    \/ \E t \in Threads : LoadTop(t)
    \/ \E t \in Threads : LoadCursor(t)
    \/ \E t \in Threads : AddChunk(t)
    \/ \E t \in Threads : Install(t)
    \/ \E t \in Threads : Account(t)
    \/ \E t \in Threads : Discard(t)
    \/ \E t \in Threads : Continue(t)
    \/ \E t \in Threads : Bump(t)
    \/ \E t \in Threads : Return(t)

SpecWrap == Init /\ [][NextWrap]_vars

\* C37: with sums taken modulo 2^w and sizes close to the largest size_t,
\* malloc never returns a region that extends beyond chunk_end of the chunk
\* it was carved from and never moves chunk_at backwards: once the
\* compare-and-swap of line 150 has succeeded, the region ends at or before
\* chunk_end and the cursor is not below the value the call read.
C37_WrappedMallocStaysInChunk ==
    \A t \in Threads :
        pc[t] = "L154" =>
            /\ top_of_stack[t] + padding[t] + bytes[t] <= chunks[chunk[t]].chunk_end
            /\ chunks[chunk[t]].chunk_at >= top_of_stack[t]

(***************************************************************************)
(* GrpcServer.  Two threads call AddService and Start on one server; each  *)
(* step is one line of grpc_server.cpp.  ASSERT (common.hpp line 7) calls   *)
(* abort() when its expression is false, in every build, and abort() ends  *)
(* the process: no thread takes a step after it.                           *)
(***************************************************************************)
MaxServerCalls == 3
Services == {1, 2}

\* GrpcServer::GrpcServer: running_(false), a builder with a listening port
\* and no service
ServerInit ==
    /\ running_ = FALSE
    /\ registered = <<>>
    /\ services_ = <<>>
    /\ server_ = NotBuilt
    /\ aborted = FALSE
    /\ gpc = [t \in Threads |-> "idle"]
    /\ gservice = [t \in Threads |-> NULL]
    /\ startLog = <<>>
    /\ builds = 0
    /\ gcalls = 0

InitServer ==
    /\ NoArray /\ NoCompressed
    /\ \E bs \in BlockSizes : PoolInit(bs, MemSlots)
    /\ ServerInit

\* a thread enters AddService(s)
AddService(t, s) ==
    /\ ~aborted
    /\ gpc[t] = "idle"
    /\ gcalls < MaxServerCalls
    /\ gcalls' = gcalls + 1
    /\ gservice' = [gservice EXCEPT ![t] = s]
    /\ gpc' = [gpc EXCEPT ![t] = "L19"]
    /\ UNCHANGED <<poolVars, arrayVars, compVars, running_, registered,
                   services_, server_, aborted, startLog, builds>>

\* line 19: ASSERT(running_ == false)
CheckNotRunning(t) ==
    /\ ~aborted
    /\ gpc[t] = "L19"
    /\ IF running_ = FALSE
         THEN gpc' = [gpc EXCEPT ![t] = "L20"] /\ UNCHANGED aborted
         ELSE gpc' = [gpc EXCEPT ![t] = "abort"] /\ aborted' = TRUE
    /\ UNCHANGED <<poolVars, arrayVars, compVars, running_, registered,
                   services_, server_, gservice, startLog, builds, gcalls>>

\* line 20: builder_.RegisterService(service.get())
RegisterService(t) ==
    /\ ~aborted
    /\ gpc[t] = "L20"
    /\ registered' = Append(registered, gservice[t])
    /\ gpc' = [gpc EXCEPT ![t] = "L21"]
    /\ UNCHANGED <<poolVars, arrayVars, compVars, running_, services_,
                   server_, aborted, gservice, startLog, builds, gcalls>>

\* line 21: services_.emplace_back(service.release()), and AddService returns
KeepService(t) ==
    /\ ~aborted
    /\ gpc[t] = "L21"
    /\ services_' = Append(services_, gservice[t])
    /\ gservice' = [gservice EXCEPT ![t] = NULL]
    /\ gpc' = [gpc EXCEPT ![t] = "idle"]
    /\ UNCHANGED <<poolVars, arrayVars, compVars, running_, registered,
                   server_, aborted, startLog, builds, gcalls>>

\* a thread enters Start()
Start(t) ==
    /\ ~aborted
    /\ gpc[t] = "idle"
    /\ gcalls < MaxServerCalls
    /\ gcalls' = gcalls + 1
    /\ gpc' = [gpc EXCEPT ![t] = "L26"]
    /\ UNCHANGED <<poolVars, arrayVars, compVars, running_, registered,
                   services_, server_, aborted, gservice, startLog, builds>>

\* faulty variant of Exchange: the flag is read and left as it was
Exchange_reads(desired) == [old |-> running_, new |-> running_]

\* line 26: running_.exchange(true), one atomic read-modify-write
Exchange(desired) == [old |-> running_, new |-> desired]

\* line 26: ASSERT(running_.exchange(true) == false)
TestAndSetRunning(t) ==
    /\ ~aborted
    /\ gpc[t] = "L26"
    /\ LET r == Exchange(TRUE)
       IN /\ running_' = r.new
          /\ startLog' = Append(startLog, <<t, r.old>>)
          /\ IF r.old = FALSE
               THEN gpc' = [gpc EXCEPT ![t] = "L27"] /\ UNCHANGED aborted
               ELSE gpc' = [gpc EXCEPT ![t] = "abort"] /\ aborted' = TRUE
    /\ UNCHANGED <<poolVars, arrayVars, compVars, registered, services_,
                   server_, gservice, builds, gcalls>>

\* line 27: server_ = builder_.BuildAndStart(), and Start returns
BuildAndStart(t) ==
    /\ ~aborted
    /\ gpc[t] = "L27"
    /\ server_' = [services |-> registered, by |-> t]
    /\ builds' = builds + 1
    /\ gpc' = [gpc EXCEPT ![t] = "idle"]
    /\ UNCHANGED <<poolVars, arrayVars, compVars, running_, registered,
                   services_, aborted, gservice, startLog, gcalls>>

NextServer ==
    \/ \E t \in Threads : \E s \in Services : AddService(t, s)
    \/ \E t \in Threads : CheckNotRunning(t)
    \/ \E t \in Threads : RegisterService(t)
    \/ \E t \in Threads : KeepService(t)
    \/ \E t \in Threads : Start(t)
    \/ \E t \in Threads : TestAndSetRunning(t)
    \/ \E t \in Threads : BuildAndStart(t)

SpecServer == InitServer /\ [][NextServer]_vars

\* the Start calls that have passed the assertion of line 26
PassedStarts == SelectSeq(startLog, LAMBDA e : e[2] = FALSE)

C39_NoServiceAfterStart ==
    server_ # NotBuilt => registered = server_.services

=============================================================================
